---- MODULE Spec2Model ----
(***************************************************************************)
(* ResearchAgent (backend/agent/core.py) with its TaskPlanner              *)
(* (backend/agent/planner.py): goal understanding, planning, the plan      *)
(* execution loop with its critical / non-critical failure policy, result  *)
(* synthesis, the run boundary and the event log.                          *)
(*                                                                         *)
(* One ResearchAgent object is modelled.  Its fields execution_log and     *)
(* current_goal are set in __init__ and shared by every run() call on the  *)
(* object; everything else is local to one run() call and is indexed by    *)
(* the call (Runs).  run() is a coroutine: it gives up the thread only at  *)
(* an await (execute_step, progress_callback); cur is the call that holds  *)
(* the thread, 0 when none does.                                           *)
(*                                                                         *)
(* TaskExecutor.execute_step and ToolRegistry, which core.py imports, are  *)
(* not among the sources: what is modelled of a step's execution is that   *)
(* the awaited call at core.py:81-85 either returns or raises, and that it *)
(* raises for a tool the registry does not have.                           *)
(*                                                                         *)
(* Spec is one run() call on a newly constructed agent; SpecReuse is the   *)
(* agent called again after a call that left a short log; SpecOverlap is   *)
(* calls that overlap at their awaits; SpecFallback is the fallback plan   *)
(* on Understandings with many topics; SpecTools, SpecFetch and SpecDeps   *)
(* are one call whose plan names known and unknown tools, has web_fetch    *)
(* steps, declares dependencies; SpecEnding is one call in which every     *)
(* awaited call ends, with the fairness of a coroutine that runs on.       *)
(***************************************************************************)
EXTENDS Integers, Sequences, FiniteSets, TLC

\* ---------------------------------------------------------------- bounds
MaxRuns == 2          \* run() calls made on the agent, one after the other
MaxSteps == 2         \* length of a plan parsed from the collaborator's reply
MaxClock == 1         \* readings of datetime.now() are 0..MaxClock
MaxReuseLog == 1      \* a further run() is called only on a log this short
MaxTopics == 4        \* topics of an Understanding handed to the fallback plan

Runs == 1..MaxRuns

\* Texts are tuples of words; the absent text (Python's None, a missing key)
\* is the empty tuple.
None == <<>>
GoalOf(r) == <<"goal", r>>     \* the r-th call is given its own goal text
Topic == <<"topic">>

\* ------------------------------------------------------------ data values
\* The Understanding json.loads gives for a reply of the requested structure:
\* the objective is the collaborator's wording of the goal, and there is a
\* topic.
ParsedUnderstanding(g) ==
    [objective |-> <<"objective of">> \o g, topics |-> <<Topic>>,
     deliverable_type |-> <<"analysis">>, scope |-> <<"narrow">>,
     success_criteria |-> <<<<"Answers the goal">>>>]

\* A reply that is valid JSON but not the requested structure: it has no
\* "objective" to subscript (an object without that key, or no object).
NoObjectiveUnderstanding ==
    [objective |-> None, topics |-> <<>>, deliverable_type |-> None, scope |-> None,
     success_criteria |-> <<>>]

\* Variant of core.py:49-55: the objective is the prompt line made of the
\* goal (core.py:41), not the goal.
DefaultUnderstandingOfPrompt(g) ==
    [objective |-> <<"Goal:">> \o g, topics |-> <<>>,
     deliverable_type |-> <<"report">>, scope |-> <<"comprehensive">>,
     success_criteria |-> <<<<"Complete research">>, <<"Accurate information">>,
                            <<"Well-structured output">>>>]

\* core.py:49-55, the fallback of understand_goal
DefaultUnderstanding(g) ==
    [objective |-> g, topics |-> <<>>,
     deliverable_type |-> <<"report">>, scope |-> <<"comprehensive">>,
     success_criteria |-> <<<<"Complete research">>, <<"Accurate information">>,
                            <<"Well-structured output">>>>]

\* Understandings with up to MaxTopics topics, as json.loads gives them.
TopicNames == {<<"alpha">>, <<"beta">>}
RECURSIVE TopicListsOfLen(_)
TopicListsOfLen(n) ==
    IF n = 0 THEN {<<>>}
    ELSE {Append(ts, t) : ts \in TopicListsOfLen(n - 1), t \in TopicNames}
TopicLists == UNION {TopicListsOfLen(n) : n \in 0..MaxTopics}
UnderstandingsWithTopics(g) ==
    {[ParsedUnderstanding(g) EXCEPT !.topics = ts] : ts \in TopicLists}

ParsedUnderstandings(g) == {ParsedUnderstanding(g), NoObjectiveUnderstanding}

\* A plan step as the collaborator writes it: an object whose "critical" key
\* is true, false or missing, or a JSON value that is not an object.
CriticalFlags == {"true", "false", "missing"}
DictStep(n, c) ==
    [shape |-> "dict", step_number |-> n, description |-> <<"description", n>>,
     tool |-> "web_search", query |-> None, sources |-> None, dependencies |-> <<>>,
     critical |-> c]
ScalarStep(n) ==
    [shape |-> "scalar", step_number |-> n, description |-> None, tool |-> "none",
     query |-> None, sources |-> None, dependencies |-> <<>>, critical |-> "missing"]
\* Steps that name a tool: one the registry has, or one it has not.
ToolNames == {"web_search", "no_such_tool"}
ToolStep(n, t, c) == [DictStep(n, c) EXCEPT !.tool = t]
ToolStepsAt(n) == {ToolStep(n, t, c) : t \in ToolNames, c \in CriticalFlags}

\* TaskExecutor.execute_step resolves the step's tool in the ToolRegistry; a
\* name the registry does not have is a failure of the step, raised to
\* execute_plan like a failure of the handler.
KnownTools == {"web_search", "web_fetch", "analyze", "synthesize"}
ToolNotFound(step) == step.shape = "dict" /\ step.tool \notin KnownTools

\* The web_fetch handler: every network, HTTP-status or parse error of the
\* fetch is caught and returned as a text; the handler does not raise.
FetchOutcomes == {"ok", "network", "status", "parse"}
web_fetch(outcome) ==
    IF outcome = "ok" THEN <<"page text">> ELSE <<"Error fetching URL:", outcome>>
HandlerNeverRaises(step) == step.shape = "dict" /\ step.tool = "web_fetch"

\* What execute_step may return for a step.
ExecuteStepResults(step) ==
    IF HandlerNeverRaises(step) THEN {web_fetch(o) : o \in FetchOutcomes}
    ELSE {<<"result of step", step.step_number>>}

StepsAt(n) == {DictStep(n, c) : c \in CriticalFlags} \cup {ScalarStep(n)}

RECURSIVE PlansOfLen(_)
PlansOfLen(n) ==
    IF n = 0 THEN {<<>>}
    ELSE {Append(p, s) : p \in PlansOfLen(n - 1), s \in StepsAt(n)}
ParsedPlans == UNION {PlansOfLen(n) : n \in 0..MaxSteps}

\* Steps that declare dependencies: on step 1, on step 2, on a step the plan
\* does not have.
DependencyLists == {<<1>>, <<2>>, <<99>>}
DepStepsAt(n) ==
    {[DictStep(n, c) EXCEPT !.dependencies = d] : d \in DependencyLists, c \in {"true", "false"}}
RECURSIVE DepPlansOfLen(_)
DepPlansOfLen(n) ==
    IF n = 0 THEN {<<>>}
    ELSE {Append(p, s) : p \in DepPlansOfLen(n - 1), s \in DepStepsAt(n)}
DepPlans == UNION {DepPlansOfLen(n) : n \in 0..MaxSteps}

FetchStepsAt(n) ==
    {ToolStep(n, t, c) : t \in {"web_fetch", "web_search"}, c \in {"true", "false"}}
RECURSIVE FetchPlansOfLen(_)
FetchPlansOfLen(n) ==
    IF n = 0 THEN {<<>>}
    ELSE {Append(p, s) : p \in FetchPlansOfLen(n - 1), s \in FetchStepsAt(n)}
FetchPlans == UNION {FetchPlansOfLen(n) : n \in 0..MaxSteps}

RECURSIVE ToolPlansOfLen(_)
ToolPlansOfLen(n) ==
    IF n = 0 THEN {<<>>}
    ELSE {Append(p, s) : p \in ToolPlansOfLen(n - 1), s \in ToolStepsAt(n)}
ToolPlans == UNION {ToolPlansOfLen(n) : n \in 0..MaxSteps}

\* Variant of planner.py:97: topics, not topics[:3].
SliceAll(a, b) == b

\* planner.py:97, the length of topics[:3]
Min(a, b) == IF a < b THEN a ELSE b
FallbackTopicLimit == 3
\* Variant of planner.py:114: range(1, len(plan)), which leaves out the last
\* step before the synthesis.
_create_fallback_plan_short_range(u) ==
    LET topics == SubSeq(u.topics, 1, Min(FallbackTopicLimit, Len(u.topics)))
        first == [shape |-> "dict", step_number |-> 1,
                  description |-> <<"Search for information about">> \o u.objective,
                  tool |-> "web_search",
                  query |-> u.objective, sources |-> None, dependencies |-> <<>>,
                  critical |-> "true"]
        deep(k) == [shape |-> "dict", step_number |-> k + 1,
                    description |-> <<"Deep dive into">> \o topics[k],
                    tool |-> "web_search",
                    query |-> topics[k], sources |-> None, dependencies |-> <<1>>,
                    critical |-> "false"]
        body == <<first>> \o [k \in 1..Len(topics) |-> deep(k)]
        last == [shape |-> "dict", step_number |-> Len(body) + 1,
                 description |-> <<"Synthesize all findings">>, tool |-> "synthesize",
                 query |-> None, sources |-> <<"all_previous_steps">>,
                 dependencies |-> [k \in 1..(Len(body) - 1) |-> k], critical |-> "true"]
    IN  Append(body, last)

\* planner.py:81-118; a step keeps of its inputs the query or the sources.
_create_fallback_plan(u) ==
    LET topics == SubSeq(u.topics, 1, Min(FallbackTopicLimit, Len(u.topics)))
        first == [shape |-> "dict", step_number |-> 1,
                  description |-> <<"Search for information about">> \o u.objective,
                  tool |-> "web_search",
                  query |-> u.objective, sources |-> None, dependencies |-> <<>>,
                  critical |-> "true"]
        deep(k) == [shape |-> "dict", step_number |-> k + 1,
                    description |-> <<"Deep dive into">> \o topics[k],
                    tool |-> "web_search",
                    query |-> topics[k], sources |-> None, dependencies |-> <<1>>,
                    critical |-> "false"]
        body == <<first>> \o [k \in 1..Len(topics) |-> deep(k)]
        last == [shape |-> "dict", step_number |-> Len(body) + 1,
                 description |-> <<"Synthesize all findings">>, tool |-> "synthesize",
                 query |-> None, sources |-> <<"all_previous_steps">>,
                 dependencies |-> [k \in 1..Len(body) |-> k], critical |-> "true"]
    IN  Append(body, last)

\* _create_fallback_plan raises on an Understanding that is no object
\* (.get, planner.py:83) or has no "objective" (planner.py:88).
FallbackRaises(u) == u.objective = None

\* Variants of core.py:114: the default of the missing flag is False; the
\* flag is not consulted.
GetCriticalDefaultFalse(step) == step.critical = "true"
GetCriticalIgnored(step) == TRUE

\* core.py:114, step.get("critical", True)
GetCritical(step) == step.critical # "false"

\* What a variable of a run() call holds before the call assigns it.
NoUnderstanding ==
    [objective |-> None, topics |-> <<>>, deliverable_type |-> None, scope |-> None,
     success_criteria |-> <<>>]
NoResults ==
    [steps_completed |-> 0, total_steps |-> 0, step_results |-> <<>>,
     final_output |-> None, status |-> "unset"]
NoSynthesis ==
    [called |-> FALSE, status |-> "unset", objective |-> None, findings |-> <<>>,
     replied |-> FALSE]
NoReturn ==
    [returned |-> FALSE, success |-> FALSE, execution |-> NoResults, output |-> None,
     loglen |-> 0]

VARIABLES
    execution_log,   \* self.execution_log
    current_goal,    \* self.current_goal
    clock,           \* the last reading of datetime.now()
    cur,             \* the run() call holding the thread, 0 when none
    pc,              \* per call: its position in run() / execute_plan()
    goal,            \* per call: the goal argument
    cb,              \* per call: whether a progress_callback was passed
    understand_reply,\* per call: what the collaborator gave understand_goal
    context,         \* per call: the context argument of its last execute_step
    understanding,   \* per call: goal_understanding
    plan,            \* per call: plan
    results,         \* per call: the results dict of execute_plan
    idx,             \* per call: i + 1 of the for loop of execute_plan
    notified,        \* per call: the progress_callback invocations made
    synth,           \* per call: what synthesize_results was called with
    raised,          \* per call: the stage whose exception reached line 191
    retval           \* per call: what run() returned

vars == <<execution_log, current_goal, clock, cur, pc, goal, cb, understand_reply,
          context, understanding, plan, results, idx, notified, synth, raised, retval>>

agentVars == <<execution_log, current_goal, clock>>

Init ==
    /\ execution_log = <<>>
    /\ current_goal = NoUnderstanding
    /\ clock = 0
    /\ cur = 0
    /\ pc = [r \in Runs |-> "idle"]
    /\ goal = [r \in Runs |-> None]
    /\ cb = [r \in Runs |-> FALSE]
    /\ understand_reply = [r \in Runs |-> "none"]
    /\ context = [r \in Runs |-> <<>>]
    /\ understanding = [r \in Runs |-> NoUnderstanding]
    /\ plan = [r \in Runs |-> <<>>]
    /\ results = [r \in Runs |-> NoResults]
    /\ idx = [r \in Runs |-> 0]
    /\ notified = [r \in Runs |-> <<>>]
    /\ synth = [r \in Runs |-> NoSynthesis]
    /\ raised = [r \in Runs |-> "none"]
    /\ retval = [r \in Runs |-> NoReturn]

\* The first run() call on a new agent at core.py:169, about to call
\* create_plan: understand_goal has returned u and logged it.
InitFallback ==
    \E u \in UnderstandingsWithTopics(GoalOf(1)) \cup {DefaultUnderstanding(GoalOf(1))},
       c \in BOOLEAN :
        /\ execution_log = <<[timestamp |-> 0, event |-> "goal_understood", data |-> u,
                              run |-> 1]>>
        /\ current_goal = u
        /\ clock = 0
        /\ cur = 1
        /\ pc = [r \in Runs |-> IF r = 1 THEN "create_plan" ELSE "idle"]
        /\ goal = [r \in Runs |-> IF r = 1 THEN GoalOf(1) ELSE None]
        /\ cb = [r \in Runs |-> r = 1 /\ c]
        /\ understand_reply = [r \in Runs |-> IF r = 1 THEN "json" ELSE "none"]
        /\ context = [r \in Runs |-> <<>>]
        /\ understanding = [r \in Runs |-> IF r = 1 THEN u ELSE NoUnderstanding]
        /\ plan = [r \in Runs |-> <<>>]
        /\ results = [r \in Runs |-> NoResults]
        /\ idx = [r \in Runs |-> 0]
        /\ notified = [r \in Runs |-> <<>>]
        /\ synth = [r \in Runs |-> NoSynthesis]
        /\ raised = [r \in Runs |-> "none"]
        /\ retval = [r \in Runs |-> NoReturn]

\* ------------------------------------------------------------- helpers
Goto(r, l) == pc' = [pc EXCEPT ![r] = l]

Readings == clock..MaxClock

\* Variant of core.py:205: the log keeps only the latest entry.
log_event_keeps_latest(r, event_type, data, t) ==
    /\ execution_log' = <<[timestamp |-> t, event |-> event_type, data |-> data, run |-> r]>>
    /\ clock' = t

\* core.py:199-205, log_event; t is the reading of datetime.now().  The data
\* kept of an entry is the step it is about (0 when it is about no step), and
\* the Understanding for goal_understood; run is the call that appended it.
log_event(r, event_type, data, t) ==
    /\ execution_log' = Append(execution_log,
            [timestamp |-> t, event |-> event_type, data |-> data, run |-> r])
    /\ clock' = t

StepResult(r, status, result) ==
    [step_number |-> idx[r], step |-> plan[r][idx[r]], status |-> status,
     result |-> IF status = "completed" THEN result ELSE None,
     error |-> IF status = "failed" THEN <<"str(e)">> ELSE None]

\* An exception leaves the try block of run() at core.py:162-189: the except
\* clause at core.py:191 is entered.
Raise(r, stage) ==
    /\ Goto(r, "except")
    /\ raised' = [raised EXCEPT ![r] = stage]

\* ------------------------------------------------------------- run()
\* run(goal, progress_callback) is called and starts running.  Calls follow
\* each other; with overlap a call may start while an earlier one is
\* suspended at an await.
Call(r, c, overlap) ==
    /\ cur = 0
    /\ pc[r] = "idle"
    /\ r > 1 => /\ pc[r - 1] # "idle"
                /\ overlap \/ pc[r - 1] = "done"
                /\ Len(execution_log) <= MaxReuseLog
    /\ cur' = r
    /\ goal' = [goal EXCEPT ![r] = GoalOf(r)]
    /\ cb' = [cb EXCEPT ![r] = c]
    /\ Goto(r, "understand_goal")
    /\ UNCHANGED <<agentVars, understand_reply, context, understanding, plan, results, idx, notified, synth,
                   raised, retval>>

\* core.py:23-59 (run, line 164).  reply is what the collaborator call gives:
\* "raise", "malformed" (json.loads fails) or "json" with the parsed value.
understand_goal(r, reply, parsed) ==
    /\ cur = r
    /\ pc[r] = "understand_goal"
    /\ understand_reply' = [understand_reply EXCEPT ![r] = reply]
    /\ IF reply = "raise"
       THEN /\ Raise(r, "understand_goal")
            /\ UNCHANGED <<agentVars, understanding>>
       ELSE LET u == IF reply = "malformed" THEN DefaultUnderstanding(goal[r]) ELSE parsed
            IN  /\ current_goal' = u
                /\ \E t \in Readings : log_event(r, "goal_understood", u, t)
                /\ understanding' = [understanding EXCEPT ![r] = u]
                /\ Goto(r, IF cb[r] THEN "notify_understanding" ELSE "create_plan")
                /\ UNCHANGED raised
    /\ UNCHANGED <<cur, goal, cb, context, plan, results, idx, notified, synth, retval>>

\* Variant of core.py:165-166 and 170-171: the stage is awaited but the
\* subscriber is not given the notification.
NotifyStageSilent(r, stage) ==
    /\ cur = r
    /\ pc[r] = "notify_" \o stage
    /\ cur' = 0
    /\ Goto(r, "await_" \o stage)
    /\ UNCHANGED <<agentVars, goal, cb, understand_reply, context, understanding, plan, results,
                   idx, notified, synth, raised, retval>>

\* core.py:165-166 and 170-171: progress_callback is invoked with a coarse
\* notification and run() is suspended until it returns or raises.
NotifyStage(r, stage) ==
    /\ cur = r
    /\ pc[r] = "notify_" \o stage
    /\ notified' = [notified EXCEPT ![r] = Append(@, [kind |-> stage, steps_completed |-> 0,
                                                       results |-> 0, status |-> "none"])]
    /\ cur' = 0
    /\ Goto(r, "await_" \o stage)
    /\ UNCHANGED <<agentVars, goal, cb, understand_reply, context, understanding, plan, results, idx, synth, raised, retval>>

ResumeStage(r, stage, next, raises) ==
    /\ cur = 0
    /\ pc[r] = "await_" \o stage
    /\ cur' = r
    /\ IF raises
       THEN Raise(r, "notify_" \o stage)
       ELSE Goto(r, next) /\ UNCHANGED raised
    /\ UNCHANGED <<agentVars, goal, cb, understand_reply, context, understanding, plan, results, idx, notified,
                   synth, retval>>

\* core.py:61-65 with planner.py:14-79 (run, line 169).  reply is "raise" (the
\* collaborator call raises), "malformed" (no JSON: the fallback plan),
\* "scalar" (JSON that has no len(), core.py:64 raises) or "json" with the
\* parsed plan.
create_plan(r, reply, parsed) ==
    /\ cur = r
    /\ pc[r] = "create_plan"
    /\ LET u == understanding[r]
           raises == \/ reply \in {"raise", "scalar"}
                     \/ reply = "malformed" /\ FallbackRaises(u)
           p == IF reply = "malformed" THEN _create_fallback_plan(u) ELSE parsed
       IN  IF raises
           THEN /\ Raise(r, "create_plan")
                /\ UNCHANGED <<execution_log, clock, plan>>
           ELSE /\ plan' = [plan EXCEPT ![r] = p]
                /\ \E t \in Readings : log_event(r, "plan_created", 0, t)
                /\ Goto(r, IF cb[r] THEN "notify_planning" ELSE "execute_plan")
                /\ UNCHANGED raised
    /\ UNCHANGED <<current_goal, cur, goal, cb, understand_reply, context, understanding, results, idx, notified,
                   synth, retval>>

\* ------------------------------------------------------- execute_plan()
\* core.py:69-75
InitialResults(p) ==
    [steps_completed |-> 0, total_steps |-> Len(p), step_results |-> <<>>,
     final_output |-> None, status |-> "in_progress"]

execute_plan(r) ==
    /\ cur = r
    /\ pc[r] = "execute_plan"
    /\ results' = [results EXCEPT ![r] = InitialResults(plan[r])]
    /\ idx' = [idx EXCEPT ![r] = 1]
    /\ Goto(r, "for")
    /\ UNCHANGED <<agentVars, cur, goal, cb, understand_reply, context, understanding, plan, notified, synth, raised, retval>>

\* Variant of core.py:77-78: a step is passed over when a step it names as a
\* dependency has no completed result.
DependenciesMet(step_results, deps) ==
    \A k \in 1..Len(deps) :
        \E j \in 1..Len(step_results) :
            step_results[j].step_number = deps[k] /\ step_results[j].status = "completed"

StepStartGated(r) ==
    /\ cur = r
    /\ pc[r] = "for"
    /\ idx[r] <= Len(plan[r])
    /\ IF DependenciesMet(results[r].step_results, plan[r][idx[r]].dependencies)
       THEN /\ \E t \in Readings : log_event(r, "step_started", idx[r], t)
            /\ context' = [context EXCEPT ![r] = results[r].step_results]
            /\ cur' = 0
            /\ Goto(r, "await_step")
            /\ idx' = idx
       ELSE /\ idx' = [idx EXCEPT ![r] = @ + 1]
            /\ UNCHANGED <<execution_log, clock, context, cur, pc>>
    /\ UNCHANGED <<current_goal, goal, cb, understand_reply, understanding, plan, results,
                   notified, synth, raised, retval>>

\* Variant of core.py:84: the context holds only the results of the steps the
\* step names as its dependencies.
RECURSIVE DependencyResults(_, _)
DependencyResults(step_results, deps) ==
    IF step_results = <<>> THEN <<>>
    ELSE LET rest == DependencyResults(Tail(step_results), deps)
             sr == Head(step_results)
         IN  IF \E k \in 1..Len(deps) : deps[k] = sr.step_number
             THEN <<sr>> \o rest ELSE rest

StepStartDependencyContext(r) ==
    /\ cur = r
    /\ pc[r] = "for"
    /\ idx[r] <= Len(plan[r])
    /\ \E t \in Readings : log_event(r, "step_started", idx[r], t)
    /\ context' = [context EXCEPT ![r] = DependencyResults(results[r].step_results, plan[r][idx[r]].dependencies)]
    /\ cur' = 0
    /\ Goto(r, "await_step")
    /\ UNCHANGED <<current_goal, goal, cb, understand_reply, understanding, plan, results, idx,
                   notified, synth, raised, retval>>

\* core.py:77-85: the next step is logged as started and execute_step is
\* awaited with the step_results list as its context.
StepStart(r) ==
    /\ cur = r
    /\ pc[r] = "for"
    /\ idx[r] <= Len(plan[r])
    /\ \E t \in Readings : log_event(r, "step_started", idx[r], t)
    /\ context' = [context EXCEPT ![r] = results[r].step_results]
    /\ cur' = 0
    /\ Goto(r, "await_step")
    /\ UNCHANGED <<current_goal, goal, cb, understand_reply, understanding, plan, results, idx,
                   notified, synth, raised, retval>>

\* Variant of core.py:87-93: a returned text that reports an error is
\* recorded as a failed result.
StepReturnedFailsOnErrorText(r, result) ==
    /\ cur = 0
    /\ pc[r] = "await_step"
    /\ ~ToolNotFound(plan[r][idx[r]])
    /\ cur' = r
    /\ LET status == IF Head(result) = "Error fetching URL:" THEN "failed" ELSE "completed"
       IN  results' = [results EXCEPT
                ![r].step_results = Append(@, StepResult(r, status, result)),
                ![r].steps_completed = idx[r]]
    /\ Goto(r, IF cb[r] THEN "notify_progress" ELSE "step_completed")
    /\ UNCHANGED <<agentVars, goal, cb, understand_reply, context, understanding, plan, idx,
                   notified, synth, raised, retval>>

\* core.py:87-95: execute_step returned, which it does not for a tool the
\* registry does not have.
StepReturned(r, result) ==
    /\ cur = 0
    /\ pc[r] = "await_step"
    /\ ~ToolNotFound(plan[r][idx[r]])
    /\ cur' = r
    /\ results' = [results EXCEPT ![r].step_results = Append(@, StepResult(r, "completed", result)),
                                  ![r].steps_completed = idx[r]]
    /\ Goto(r, IF cb[r] THEN "notify_progress" ELSE "step_completed")
    /\ UNCHANGED <<agentVars, goal, cb, understand_reply, context, understanding, plan, idx, notified, synth, raised, retval>>

\* Variant of core.py:97-98: the notification is handed over without waiting
\* for the subscriber.
NotifyProgressBuffered(r) ==
    /\ cur = r
    /\ pc[r] = "notify_progress"
    /\ notified' = [notified EXCEPT ![r] =
            Append(@, [kind |-> "progress",
                       steps_completed |-> results[r].steps_completed,
                       results |-> Len(results[r].step_results),
                       status |-> results[r].status])]
    /\ Goto(r, "step_completed")
    /\ UNCHANGED <<agentVars, cur, goal, cb, understand_reply, context, understanding, plan,
                   results, idx, synth, raised, retval>>

\* core.py:97-98: progress_callback(results) is invoked and awaited.
NotifyProgress(r) ==
    /\ cur = r
    /\ pc[r] = "notify_progress"
    /\ notified' = [notified EXCEPT ![r] =
            Append(@, [kind |-> "progress",
                       steps_completed |-> results[r].steps_completed,
                       results |-> Len(results[r].step_results),
                       status |-> results[r].status])]
    /\ cur' = 0
    /\ Goto(r, "await_progress")
    /\ UNCHANGED <<agentVars, goal, cb, understand_reply, context, understanding, plan, results, idx, synth, raised, retval>>

\* core.py:100 and the end of the loop body
StepCompleted(r) ==
    /\ cur = r
    /\ pc[r] = "step_completed"
    /\ \E t \in Readings : log_event(r, "step_completed", idx[r], t)
    /\ idx' = [idx EXCEPT ![r] = @ + 1]
    /\ Goto(r, "for")
    /\ UNCHANGED <<current_goal, cur, goal, cb, understand_reply, context, understanding, plan, results, notified,
                   synth, raised, retval>>

\* Variant of core.py:102-118: the exception is not handled in the loop and
\* leaves execute_plan.
StepExceptPropagates(r) ==
    /\ Raise(r, "execute_plan")
    /\ UNCHANGED <<execution_log, clock, results, idx>>

\* Variant of core.py:114-115: after the failure of a non-critical step the
\* loop takes the same step again.
StepExceptRetries(r) ==
    LET step == plan[r][idx[r]]
        failed == [results[r] EXCEPT !.step_results = Append(@, StepResult(r, "failed", None))]
    IN  /\ \E t \in Readings : log_event(r, "step_failed", idx[r], t)
        /\ idx' = idx
        /\ UNCHANGED raised
        /\ IF step.critical = "false"
           THEN /\ results' = [results EXCEPT ![r] = failed]
                /\ Goto(r, "for")
           ELSE /\ results' = [results EXCEPT ![r] = [failed EXCEPT !.status = "failed"]]
                /\ Goto(r, "synthesize_results")

\* core.py:102-118: the except clause of the loop body.  It is entered from
\* every raise inside the try block: from execute_step and from
\* progress_callback.
StepExcept(r) ==
    LET step == plan[r][idx[r]]
        failed == [results[r] EXCEPT !.step_results = Append(@, StepResult(r, "failed", None))]
    IN  /\ \E t \in Readings : log_event(r, "step_failed", idx[r], t)
        /\ IF step.shape # "dict"
           THEN \* step.get raises AttributeError, which leaves execute_plan
                /\ results' = [results EXCEPT ![r] = failed]
                /\ idx' = idx
                /\ Raise(r, "execute_plan")
           ELSE IF ~GetCritical(step)
           THEN /\ results' = [results EXCEPT ![r] = failed]
                /\ idx' = [idx EXCEPT ![r] = @ + 1]
                /\ Goto(r, "for")
                /\ UNCHANGED raised
           ELSE /\ results' = [results EXCEPT ![r] = [failed EXCEPT !.status = "failed"]]
                /\ idx' = idx
                /\ Goto(r, "synthesize_results")
                /\ UNCHANGED raised

StepRaised(r) ==
    /\ cur = 0
    /\ pc[r] = "await_step"
    /\ ~HandlerNeverRaises(plan[r][idx[r]])
    /\ cur' = r
    /\ StepExcept(r)
    /\ UNCHANGED <<current_goal, goal, cb, understand_reply, context, understanding, plan, notified, synth, retval>>

ResumeProgress(r, raises) ==
    /\ cur = 0
    /\ pc[r] = "await_progress"
    /\ cur' = r
    /\ IF raises
       THEN StepExcept(r)
       ELSE /\ Goto(r, "step_completed")
            /\ UNCHANGED <<execution_log, clock, results, idx, raised>>
    /\ UNCHANGED <<current_goal, goal, cb, understand_reply, context, understanding, plan, notified, synth, retval>>

\* Variant of core.py:120-121: the results are returned as they are.
PlanCompletedLeavesStatus(r) ==
    /\ cur = r
    /\ pc[r] = "for"
    /\ idx[r] > Len(plan[r])
    /\ Goto(r, "synthesize_results")
    /\ UNCHANGED <<agentVars, cur, goal, cb, understand_reply, context, understanding, plan,
                   results, idx, notified, synth, raised, retval>>

\* core.py:120-121: the loop is exhausted.
PlanCompleted(r) ==
    /\ cur = r
    /\ pc[r] = "for"
    /\ idx[r] > Len(plan[r])
    /\ results' = [results EXCEPT ![r].status = "completed"]
    /\ Goto(r, "synthesize_results")
    /\ UNCHANGED <<agentVars, cur, goal, cb, understand_reply, context, understanding, plan, idx, notified, synth, raised, retval>>

\* ------------------------------------------------ synthesize_results()
\* Variant of core.py:139-142: every entry of step_results gives a finding.
FindingsOfAll(step_results) ==
    [k \in 1..Len(step_results) |->
        [heading |-> step_results[k].step.description, result |-> step_results[k].result]]

\* core.py:139-142: the completed entries of step_results, in order, each as
\* the description of its step and its result
RECURSIVE Findings(_)
Findings(step_results) ==
    IF step_results = <<>> THEN <<>>
    ELSE LET rest == Findings(Tail(step_results))
             sr == Head(step_results)
         IN  IF sr.status = "completed"
             THEN <<[heading |-> sr.step.description, result |-> sr.result]>> \o rest
             ELSE rest

\* core.py:142 subscripts the step of every completed entry and core.py:152
\* subscripts self.current_goal: either raises on a value that is no object
\* or lacks the key.
SynthesisRaises(step_results, cg) ==
    \/ \E k \in 1..Len(step_results) :
          /\ step_results[k].status = "completed"
          /\ step_results[k].step.shape # "dict"
    \/ cg.objective = None

Report(r) == <<"report of", r>>

\* core.py:123-158 (run, line 177): run() calls it whatever the status of
\* the execution is.  replied is whether the collaborator call returns.
synthesize_results(r, replied) ==
    /\ cur = r
    /\ pc[r] = "synthesize_results"
    /\ LET sr == results[r].step_results
       IN  IF SynthesisRaises(sr, current_goal)
           THEN /\ Raise(r, "synthesize_results")
                /\ UNCHANGED <<execution_log, clock, synth>>
           ELSE /\ synth' = [synth EXCEPT ![r] =
                        [called |-> TRUE, status |-> results[r].status,
                         objective |-> current_goal.objective,
                         findings |-> Findings(sr),
                         replied |-> replied]]
                /\ IF replied
                   THEN /\ \E t \in Readings : log_event(r, "results_synthesized", 0, t)
                        /\ Goto(r, "return")
                        /\ UNCHANGED raised
                   ELSE /\ Raise(r, "synthesize_results")
                        /\ UNCHANGED <<execution_log, clock>>
    /\ UNCHANGED <<current_goal, cur, goal, cb, understand_reply, context, understanding, plan, results, idx,
                   notified, retval>>

\* Variants of core.py:178-189: success reports the status of the execution;
\* the execution is marked completed once its output is set.
ReturnSuccessOnlyIfCompleted(r) ==
    /\ cur = r
    /\ pc[r] = "return"
    /\ results' = [results EXCEPT ![r].final_output = Report(r)]
    /\ retval' = [retval EXCEPT ![r] =
            [returned |-> TRUE, success |-> results[r].status = "completed",
             execution |-> results'[r], output |-> Report(r),
             loglen |-> Len(execution_log)]]
    /\ cur' = 0
    /\ Goto(r, "done")
    /\ UNCHANGED <<agentVars, goal, cb, understand_reply, context, understanding, plan, idx, notified, synth, raised>>

ReturnSuccessMarksCompleted(r) ==
    /\ cur = r
    /\ pc[r] = "return"
    /\ results' = [results EXCEPT ![r].final_output = Report(r),
                                  ![r].status = "completed"]
    /\ retval' = [retval EXCEPT ![r] =
            [returned |-> TRUE, success |-> TRUE, execution |-> results'[r],
             output |-> Report(r), loglen |-> Len(execution_log)]]
    /\ cur' = 0
    /\ Goto(r, "done")
    /\ UNCHANGED <<agentVars, goal, cb, understand_reply, context, understanding, plan, idx, notified, synth, raised>>

\* core.py:178-189.  The log of the returned dict is self.execution_log
\* itself, not a copy: loglen is its length when run() returns.
ReturnSuccess(r) ==
    /\ cur = r
    /\ pc[r] = "return"
    /\ results' = [results EXCEPT ![r].final_output = Report(r)]
    /\ retval' = [retval EXCEPT ![r] =
            [returned |-> TRUE, success |-> TRUE, execution |-> results'[r],
             output |-> Report(r),
             loglen |-> Len(execution_log)]]
    /\ cur' = 0
    /\ Goto(r, "done")
    /\ UNCHANGED <<agentVars, goal, cb, understand_reply, context, understanding, plan, idx, notified, synth, raised>>

\* Variant of core.py:191-197: the except clause logs the error and raises
\* it again, so the call ends without returning a result.
ReturnErrorReraises(r) ==
    /\ cur = r
    /\ pc[r] = "except"
    /\ \E t \in Readings : log_event(r, "agent_error", 0, t)
    /\ cur' = 0
    /\ Goto(r, "done")
    /\ UNCHANGED <<current_goal, goal, cb, understand_reply, context, understanding, plan, results, idx, notified,
                   synth, raised, retval>>

\* core.py:191-197
ReturnError(r) ==
    /\ cur = r
    /\ pc[r] = "except"
    /\ \E t \in Readings : log_event(r, "agent_error", 0, t)
    /\ retval' = [retval EXCEPT ![r] =
            [returned |-> TRUE, success |-> FALSE, execution |-> NoResults,
             output |-> None,
             loglen |-> Len(execution_log')]]
    /\ cur' = 0
    /\ Goto(r, "done")
    /\ UNCHANGED <<current_goal, goal, cb, understand_reply, context, understanding, plan, results, idx, notified,
                   synth, raised>>

\* ------------------------------------------------------- specification
RunStep(r) ==
    \/ \E reply \in {"raise", "malformed"} : understand_goal(r, reply, NoUnderstanding)
    \/ \E u \in ParsedUnderstandings(goal[r]) : understand_goal(r, "json", u)
    \/ NotifyStage(r, "understanding")
    \/ \E raises \in BOOLEAN : ResumeStage(r, "understanding", "create_plan", raises)
    \/ \E reply \in {"raise", "malformed", "scalar"} : create_plan(r, reply, <<>>)
    \/ \E p \in ParsedPlans : create_plan(r, "json", p)
    \/ NotifyStage(r, "planning")
    \/ \E raises \in BOOLEAN : ResumeStage(r, "planning", "execute_plan", raises)
    \/ execute_plan(r)
    \/ StepStart(r)
    \/ /\ pc[r] = "await_step"
       /\ \E result \in ExecuteStepResults(plan[r][idx[r]]) : StepReturned(r, result)
    \/ StepRaised(r)
    \/ NotifyProgress(r)
    \/ \E raises \in BOOLEAN : ResumeProgress(r, raises)
    \/ StepCompleted(r)
    \/ PlanCompleted(r)
    \/ \E replied \in BOOLEAN : synthesize_results(r, replied)
    \/ ReturnSuccess(r)
    \/ ReturnError(r)

\* One run() call on a newly constructed agent.
Next ==
    \/ \E c \in BOOLEAN : Call(1, c, FALSE)
    \/ RunStep(1)

Spec == Init /\ [][Next]_vars

\* The agent is used again: run() is called up to MaxRuns times, each call
\* after the one before it has ended.
NextReuse ==
    \/ \E r \in Runs, c \in BOOLEAN : Call(r, c, FALSE)
    \/ \E r \in Runs : RunStep(r)

SpecReuse == Init /\ [][NextReuse]_vars

\* The fallback plan alone: create_plan of a call whose collaborator reply
\* holds no JSON, on each Understanding with up to MaxTopics topics.
NextFallback == create_plan(1, "malformed", <<>>)

SpecFallback == InitFallback /\ [][NextFallback]_vars

\* Overlapping run() calls on one agent: a call may start while an earlier
\* one is suspended at an await (core.py:81, 98, 166, 171).  The calls taken
\* are those in which nothing fails: the goal reply does not parse, the plan
\* reply is a plan of one step, the step returns, the subscriber returns and
\* the synthesis replies.
OneStepPlan == <<DictStep(1, "true")>>

RunStepOverlapped(r) ==
    \/ understand_goal(r, "malformed", NoUnderstanding)
    \/ NotifyStage(r, "understanding")
    \/ ResumeStage(r, "understanding", "create_plan", FALSE)
    \/ create_plan(r, "json", OneStepPlan)
    \/ NotifyStage(r, "planning")
    \/ ResumeStage(r, "planning", "execute_plan", FALSE)
    \/ execute_plan(r)
    \/ StepStart(r)
    \/ /\ pc[r] = "await_step"
       /\ \E result \in ExecuteStepResults(plan[r][idx[r]]) : StepReturned(r, result)
    \/ NotifyProgress(r)
    \/ ResumeProgress(r, FALSE)
    \/ StepCompleted(r)
    \/ PlanCompleted(r)
    \/ synthesize_results(r, TRUE)
    \/ ReturnSuccess(r)

NextOverlap ==
    \/ \E r \in Runs, c \in BOOLEAN : Call(r, c, TRUE)
    \/ \E r \in Runs : RunStepOverlapped(r)

SpecOverlap == Init /\ [][NextOverlap]_vars

\* One run() call without a subscriber whose plan names, step by step, a
\* tool the registry has or one it has not.
RunStepTools(r) ==
    \/ understand_goal(r, "malformed", NoUnderstanding)
    \/ \E p \in ToolPlans : create_plan(r, "json", p)
    \/ execute_plan(r)
    \/ StepStart(r)
    \/ /\ pc[r] = "await_step"
       /\ \E result \in ExecuteStepResults(plan[r][idx[r]]) : StepReturned(r, result)
    \/ StepRaised(r)
    \/ StepCompleted(r)
    \/ PlanCompleted(r)
    \/ \E replied \in BOOLEAN : synthesize_results(r, replied)
    \/ ReturnSuccess(r)
    \/ ReturnError(r)

NextTools ==
    \/ Call(1, FALSE, FALSE)
    \/ RunStepTools(1)

SpecTools == Init /\ [][NextTools]_vars

\* One run() call, with or without a subscriber, on a plan of step objects,
\* in which every awaited call ends and the subscriber returns.  The
\* coroutine runs on whenever it can: each of its steps is taken if it stays
\* possible.
ObjectPlans == {p \in ParsedPlans : \A k \in 1..Len(p) : p[k].shape = "dict"}

RunStepEnding(r) ==
    \/ understand_goal(r, "malformed", NoUnderstanding)
    \/ NotifyStage(r, "understanding")
    \/ ResumeStage(r, "understanding", "create_plan", FALSE)
    \/ \E p \in ObjectPlans : create_plan(r, "json", p)
    \/ NotifyStage(r, "planning")
    \/ ResumeStage(r, "planning", "execute_plan", FALSE)
    \/ execute_plan(r)
    \/ StepStart(r)
    \/ /\ pc[r] = "await_step"
       /\ \E result \in ExecuteStepResults(plan[r][idx[r]]) : StepReturned(r, result)
    \/ StepRaised(r)
    \/ NotifyProgress(r)
    \/ ResumeProgress(r, FALSE)
    \/ StepCompleted(r)
    \/ PlanCompleted(r)
    \/ synthesize_results(r, TRUE)
    \/ ReturnSuccess(r)

NextEnding ==
    \/ \E c \in BOOLEAN : Call(1, c, FALSE)
    \/ RunStepEnding(1)

SpecEnding == Init /\ [][NextEnding]_vars /\ WF_vars(RunStepEnding(1))

\* One run() call without a subscriber whose steps declare dependencies.
RunStepDeps(r) ==
    \/ understand_goal(r, "malformed", NoUnderstanding)
    \/ \E p \in DepPlans : create_plan(r, "json", p)
    \/ execute_plan(r)
    \/ StepStart(r)
    \/ /\ pc[r] = "await_step"
       /\ \E result \in ExecuteStepResults(plan[r][idx[r]]) : StepReturned(r, result)
    \/ StepRaised(r)
    \/ StepCompleted(r)
    \/ PlanCompleted(r)
    \/ \E replied \in BOOLEAN : synthesize_results(r, replied)
    \/ ReturnSuccess(r)
    \/ ReturnError(r)

NextDeps ==
    \/ Call(1, FALSE, FALSE)
    \/ RunStepDeps(1)

SpecDeps == Init /\ [][NextDeps]_vars

\* One run() call without a subscriber whose plan has web_fetch and
\* web_search steps; a fetch succeeds or fails in one of three ways.
RunStepFetch(r) ==
    \/ understand_goal(r, "malformed", NoUnderstanding)
    \/ \E p \in FetchPlans : create_plan(r, "json", p)
    \/ execute_plan(r)
    \/ StepStart(r)
    \/ /\ pc[r] = "await_step"
       /\ \E result \in ExecuteStepResults(plan[r][idx[r]]) : StepReturned(r, result)
    \/ StepRaised(r)
    \/ StepCompleted(r)
    \/ PlanCompleted(r)
    \/ \E replied \in BOOLEAN : synthesize_results(r, replied)
    \/ ReturnSuccess(r)
    \/ ReturnError(r)

NextFetch ==
    \/ Call(1, FALSE, FALSE)
    \/ RunStepFetch(1)

SpecFetch == Init /\ [][NextFetch]_vars

\* ----------------------------------------------------------- properties
Last(s) == s[Len(s)]

IsPrefix(s, t) == Len(s) <= Len(t) /\ SubSeq(t, 1, Len(s)) = s

\* The step numbers of the step_started entries a call has appended to log.
StepsStarted(log, r) ==
    {log[k].data : k \in {j \in 1..Len(log) : log[j].run = r /\ log[j].event = "step_started"}}

\* The events of the first n entries of log, in order.
Events(log, n) == [k \in 1..n |-> log[k].event]

\* This step of the call appends a failed StepResult.
StepFails(r) ==
    /\ Len(results'[r].step_results) = Len(results[r].step_results) + 1
    /\ Last(results'[r].step_results).status = "failed"

\* The statuses recorded for the plan step at list position n.
StatusesOf(step_results, n) ==
    {step_results[k].status :
        k \in {j \in 1..Len(step_results) : step_results[j].step_number = n}}

\* C1. Critical halt: when a step whose critical flag is true or missing
\* fails, status becomes failed and the loop is left at once; from then on
\* the call starts no step (no step_started entry and no StepResult beyond
\* the failed step) and makes no progress notification.
CriticalHalt ==
    [][\A r \in Runs :
        LET sr == results'[r].step_results
        IN  /\ (StepFails(r) /\ Last(sr).step.shape = "dict"
                             /\ Last(sr).step.critical \in {"true", "missing"})
                => /\ results'[r].status = "failed"
                   /\ pc'[r] = "synthesize_results"
                   /\ \A n \in StepsStarted(execution_log', r) : n <= Last(sr).step_number
                   /\ \A k \in 1..Len(sr) : sr[k].step_number <= Last(sr).step_number
            /\ results[r].status = "failed"
                => /\ sr = results[r].step_results
                   /\ StepsStarted(execution_log', r) = StepsStarted(execution_log, r)
                   /\ notified'[r] = notified[r]
                   /\ pc'[r] \in {"synthesize_results", "return", "except", "done"}
      ]_vars

\* A call with a subscriber has ended after a step without a critical flag
\* failed, and a later plan step was never run.
CriticalHaltWitness ==
    \E r \in Runs :
        /\ pc[r] = "done"
        /\ cb[r]
        /\ results[r].status = "failed"
        /\ Last(results[r].step_results).step.critical = "missing"
        /\ Last(results[r].step_results).step_number < Len(plan[r])

\* C2. Non-critical absorption: the failure of a step whose critical flag is
\* false records a failed StepResult and a step_failed entry, leaves status
\* in_progress and moves the loop to the next step; when execute_plan ends
\* completed every plan step has been run; it ends failed only if a step that
\* is not non-critical has failed; the plan [A non-critical fails, B critical
\* succeeds] ends completed with steps_completed = 2 and results
\* [failed, completed].
NonCriticalAbsorption ==
    [][\A r \in Runs :
        LET sr == results'[r].step_results
            p == plan'[r]
        IN  /\ (StepFails(r) /\ Last(sr).step.shape = "dict"
                             /\ Last(sr).step.critical = "false")
                => /\ results'[r].status = "in_progress"
                   /\ Last(execution_log').event = "step_failed"
                   /\ Last(execution_log').data = idx[r]
                   /\ Last(execution_log').run = r
                   /\ idx'[r] = idx[r] + 1
                   /\ pc'[r] = "for"
            /\ results'[r].status = "completed"
                => \A n \in 1..Len(p) : StatusesOf(sr, n) # {}
            /\ results'[r].status = "failed"
                => \E k \in 1..Len(sr) : /\ sr[k].status = "failed"
                                         /\ sr[k].step.critical # "false"
            /\ (/\ results'[r].status \in {"completed", "failed"}
                /\ Len(p) = 2
                /\ p[1].shape = "dict" /\ p[1].critical = "false"
                /\ p[2].shape = "dict" /\ p[2].critical = "true"
                /\ StatusesOf(sr, 1) = {"failed"}
                /\ StatusesOf(sr, 2) = {"completed"})
                => /\ results'[r].status = "completed"
                   /\ results'[r].steps_completed = 2
                   /\ [k \in 1..Len(sr) |-> sr[k].status] = <<"failed", "completed">>
      ]_vars

\* The plan [A non-critical, B critical] has been run: A failed, B succeeded.
NonCriticalAbsorptionWitness ==
    \E r \in Runs :
        /\ pc[r] = "done"
        /\ Len(plan[r]) = 2
        /\ plan[r][1].critical = "false"
        /\ plan[r][2].critical = "true"
        /\ results[r].status = "completed"
        /\ Len(results[r].step_results) = 2
        /\ results[r].step_results[1].status = "failed"
        /\ results[r].step_results[2].status = "completed"

\* C3. No synthesis after a critical failure: the synthesizer is only given
\* an execution with status completed; after execute_plan ended failed the
\* call makes no synthesis call, appends no results_synthesized entry, and
\* leaves final_output and the returned output absent.
NoSynthesisAfterCriticalFailure ==
    \A r \in Runs :
        /\ synth[r].called => synth[r].status = "completed"
        /\ results[r].status = "failed"
            => /\ ~synth[r].called
               /\ \A k \in 1..Len(execution_log) :
                     ~(execution_log[k].run = r
                       /\ execution_log[k].event = "results_synthesized")
               /\ results[r].final_output = None
               /\ retval[r].output = None

\* C4. A failed critical step alone does not fail the run: run() returns
\* success = false exactly when an exception reached its except clause, and
\* when execute_plan ended failed and nothing raised it returns success =
\* true with that failed execution.
FailedStepIsNotFailedRun ==
    \A r \in Runs :
        retval[r].returned
            => /\ retval[r].success <=> raised[r] = "none"
               /\ (results[r].status = "failed" /\ raised[r] = "none")
                    => /\ retval[r].success
                       /\ retval[r].execution.status = "failed"
                       /\ retval[r].execution.step_results = results[r].step_results

FailedStepIsNotFailedRunWitness ==
    \E r \in Runs :
        /\ retval[r].returned
        /\ retval[r].success
        /\ retval[r].execution.status = "failed"

\* C5. Once execute_plan has ended with status completed, the number of
\* entries of step_results equals steps_completed.
ResultsMatchStepsCompleted ==
    \A r \in Runs :
        results[r].status = "completed"
            => Len(results[r].step_results) = results[r].steps_completed

\* C6. step_results mirrors the plan as a prefix: entries are only appended,
\* the k-th entry is the result of the k-th plan step, and there are never
\* more entries than total_steps.
StepResultsMirrorPlan ==
    [][\A r \in Runs :
        LET sr == results'[r].step_results
        IN  /\ IsPrefix(results[r].step_results, sr)
            /\ \A k \in 1..Len(sr) : /\ sr[k].step_number = k
                                     /\ sr[k].step = plan'[r][k]
            /\ Len(sr) <= results'[r].total_steps
      ]_vars

\* C7. ExecutionState.status is monotonic: it starts as in_progress, changes
\* at most once, to completed or failed, and never changes afterwards.
StatusMonotonic ==
    [][\A r \in Runs :
        LET a == results[r].status
            b == results'[r].status
        IN  /\ a = "unset" => b \in {"unset", "in_progress"}
            /\ a = "in_progress" => b \in {"in_progress", "completed", "failed"}
            /\ a \in {"completed", "failed"} => b = a
      ]_vars

\* run() has set final_output on an execution that had ended completed
\* after an absorbed failure.
StatusMonotonicWitness ==
    \E r \in Runs :
        /\ retval[r].returned
        /\ results[r].final_output # None
        /\ results[r].status = "completed"
        /\ \E k \in 1..Len(results[r].step_results) :
              results[r].step_results[k].status = "failed"

\* C8. run() never propagates an error: an exception raised in any stage
\* takes the call to its except clause, which appends one agent_error entry
\* and returns {success: false, error, log}; a call that has ended has
\* returned a result.
AgentErrors(log, r) ==
    Cardinality({k \in 1..Len(log) : log[k].run = r /\ log[k].event = "agent_error"})

ErrorsCaughtAtRunBoundary ==
    [][\A r \in Runs :
        /\ raised'[r] # "none" => pc'[r] \in {"except", "done"}
        /\ pc'[r] = "done"
            => /\ retval'[r].returned
               /\ raised'[r] # "none"
                    => /\ ~retval'[r].success
                       /\ retval'[r].loglen <= Len(execution_log')
                       /\ execution_log'[retval'[r].loglen].event = "agent_error"
                       /\ execution_log'[retval'[r].loglen].run = r
                       /\ AgentErrors(execution_log', r) = 1
      ]_vars

\* The collaborator call of the synthesis raised and run() has returned.
ErrorsCaughtAtRunBoundaryWitness ==
    \E r \in Runs :
        /\ raised[r] = "synthesize_results"
        /\ synth[r].called
        /\ retval[r].returned
        /\ ~retval[r].success

\* C9. For a run whose plan has N steps that all succeed, the log run()
\* returns is exactly goal_understood, plan_created, N times (step_started,
\* step_completed), results_synthesized.
ExpectedLog(n) ==
    <<"goal_understood", "plan_created">>
        \o [k \in 1..(2 * n) |-> IF k % 2 = 1 THEN "step_started" ELSE "step_completed"]
        \o <<"results_synthesized">>

AllStepsSucceed(r) ==
    /\ Len(results[r].step_results) = Len(plan[r])
    /\ \A k \in 1..Len(plan[r]) : results[r].step_results[k].status = "completed"

SuccessfulRunLog ==
    \A r \in Runs :
        (retval[r].returned /\ retval[r].success /\ AllStepsSucceed(r))
            => Events(execution_log, retval[r].loglen) = ExpectedLog(Len(plan[r]))

\* C10. The event log is strictly timestamp-ordered: of two consecutive
\* entries the later one carries the greater timestamp.
LogStrictlyTimestampOrdered ==
    \A k \in 1..(Len(execution_log) - 1) :
        execution_log[k].timestamp < execution_log[k + 1].timestamp

\* C11. When the collaborator's reply to goal understanding cannot be parsed,
\* understand_goal raises nothing and returns the fixed default
\* Understanding: the objective is the goal text verbatim, there are no topics,
\* the deliverable type is "report", the scope is "comprehensive" and the
\* success criteria are the fixed three items.  That default is the data of
\* the run's goal_understood entry and the objective the run's synthesis is
\* given.
GoalUnderstoodEntries(log, r) ==
    {k \in 1..Len(log) : log[k].run = r /\ log[k].event = "goal_understood"}

DefaultOnParseFailure ==
    \A r \in Runs :
        understand_reply[r] = "malformed" =>
            LET d == [objective |-> goal[r], topics |-> <<>>,
                      deliverable_type |-> <<"report">>,
                      scope |-> <<"comprehensive">>,
                      success_criteria |-> <<<<"Complete research">>,
                                             <<"Accurate information">>,
                                             <<"Well-structured output">>>>]
            IN  /\ raised[r] # "understand_goal"
                /\ understanding[r] = d
                /\ GoalUnderstoodEntries(execution_log, r) # {}
                /\ \A k \in GoalUnderstoodEntries(execution_log, r) :
                        execution_log[k].data = d
                /\ synth[r].called => synth[r].objective = goal[r]

DefaultOnParseFailureWitness ==
    \E r \in Runs :
        /\ understand_reply[r] = "malformed"
        /\ synth[r].called
        /\ retval[r].returned

\* C12. The goal-understanding stage never fails the run: whatever the
\* collaborator call does and whatever it replies, understand_goal ends with
\* an Understanding (an objective is there) and no exception of this stage
\* reaches the run boundary.
GoalStageNeverFails ==
    \A r \in Runs :
        /\ raised[r] # "understand_goal"
        /\ understand_reply[r] # "none" => understanding[r].objective # None

\* C13. Every plan the fallback produces has N = 2 + min(3, number of
\* topics) steps, so at least 2; the step_number values are 1..N in list
\* order; exactly one step is a synthesize step and it is the last one; all
\* other steps are web_search steps.
PlanMade(r) == pc[r] \in {"notify_planning", "execute_plan"}

FallbackPlanShape ==
    \A r \in Runs :
        PlanMade(r) =>
            LET p == plan[r]
                nt == Len(understanding[r].topics)
                n == 2 + (IF nt < 3 THEN nt ELSE 3)
            IN  /\ Len(p) = n
                /\ n >= 2
                /\ \A k \in 1..Len(p) :
                        /\ p[k].step_number = k
                        /\ p[k].tool = IF k = Len(p) THEN "synthesize" ELSE "web_search"

FallbackPlanShapeWitness ==
    \E r \in Runs :
        /\ PlanMade(r)
        /\ Len(understanding[r].topics) = 4
        /\ Len(plan[r]) = 5

\* C14. The fallback plan is exactly this: step 1 is a critical web_search
\* whose query is the objective, with no dependencies; each of the first 3
\* topics gives, in topic order, a non-critical web_search whose query is that
\* topic, with dependencies [1]; later topics give no step; the final step is
\* a critical synthesize step with inputs {sources: "all_previous_steps"} and
\* all preceding step numbers as its dependencies.
FallbackPlanExact ==
    \A r \in Runs :
        PlanMade(r) =>
            LET u == understanding[r]
                p == plan[r]
                n == Len(p)
            IN  /\ n >= 2
                /\ p[1].tool = "web_search" /\ p[1].critical = "true"
                /\ p[1].query = u.objective /\ p[1].dependencies = <<>>
                /\ n - 2 <= 3 /\ n - 2 <= Len(u.topics)
                /\ n - 2 = 3 \/ n - 2 = Len(u.topics)
                /\ \A k \in 2..(n - 1) :
                        /\ p[k].tool = "web_search" /\ p[k].critical = "false"
                        /\ p[k].query = u.topics[k - 1]
                        /\ p[k].dependencies = <<1>>
                /\ p[n].tool = "synthesize" /\ p[n].critical = "true"
                /\ p[n].sources = <<"all_previous_steps">>
                /\ p[n].dependencies = [k \in 1..(n - 1) |-> k]

FallbackPlanExactWitness ==
    \E r \in Runs :
        /\ PlanMade(r)
        /\ understanding[r].topics = <<<<"alpha">>, <<"beta">>>>
        /\ Len(plan[r]) = 4
        /\ plan[r][2].query = <<"alpha">> /\ plan[r][3].query = <<"beta">>
        /\ plan[r][4].dependencies = <<1, 2, 3>>

\* C15. The planning stage never fails the run: for every Understanding
\* handed over and every collaborator reply, create_plan returns a list of
\* plan steps without raising, and no exception that comes of a bad reply
\* (raised in create_plan, or in execute_plan on what create_plan returned)
\* reaches the run boundary.
PlanningStageNeverFails ==
    \A r \in Runs :
        /\ raised[r] \notin {"create_plan", "execute_plan"}
        /\ \A k \in 1..Len(plan[r]) : plan[r][k].shape = "dict"

\* C16. The event log is per invocation: a run() call starts from an empty
\* log, and the log a call has returned (the list self.execution_log itself,
\* core.py:188 and 196) holds only entries appended during that call, also
\* after a later call on the same agent.
LogPerInvocation ==
    \A r \in Runs :
        /\ pc[r] = "understand_goal" => execution_log = <<>>
        /\ retval[r].returned =>
                \A k \in 1..Len(execution_log) : execution_log[k].run = r

\* C17. Concurrent runs are independent under every interleaving at the
\* suspension points: the synthesis of a run is given the objective of that
\* run's own Understanding, the log the run returns holds only entries the
\* run appended, and the step results of its ExecutionState are steps of its
\* own plan.
RunsIndependent ==
    \A r \in Runs :
        /\ synth[r].called => synth[r].objective = understanding[r].objective
        /\ retval[r].returned =>
                \A k \in 1..retval[r].loglen : execution_log[k].run = r
        /\ \A k \in 1..Len(results[r].step_results) :
                LET sr == results[r].step_results[k]
                IN  sr.step = plan[r][sr.step_number]

\* C18. A run() call made with a progress subscriber ends with one final
\* notification carrying the complete RunResult, after all its coarse and
\* per-step notifications: when the call has returned, the last notification
\* made to its subscriber is that final one and no other is.
FinalNotificationEmitted ==
    \A r \in Runs :
        (pc[r] = "done" /\ cb[r]) =>
            /\ notified[r] # <<>>
            /\ Last(notified[r]).kind = "final"
            /\ \A k \in 1..(Len(notified[r]) - 1) : notified[r][k].kind # "final"

\* C19. A progress subscriber whose call fails does not stop or change the
\* step loop: when the awaited per-step call of the subscriber ends, however
\* it ends, the step results and the status are what they were and the loop
\* goes on to log the step as completed, as it does with no subscriber.
SubscriberFailureIgnored ==
    [][\A r \in Runs :
         (pc[r] = "await_progress" /\ pc'[r] # pc[r]) =>
            (results'[r] = results[r] /\ pc'[r] = "step_completed")]_vars

\* C20. A step that names an unknown tool, or whose handler raises, is a
\* step-level failure.  When the awaited execute_step of a step ends, a
\* StepResult of the step is appended; it is never a completed one for an
\* unknown tool; when it is a failed one it carries an error text, the log
\* gets a step_failed entry of the step, the step's critical flag decides
\* (false: the loop goes on with the next step and the status stays
\* in_progress; true or missing: the status becomes failed and the loop is
\* left), and no exception goes to the run boundary.
StepLevelFailure ==
    [][\A r \in Runs :
         (pc[r] = "await_step" /\ pc'[r] # pc[r] /\ plan[r][idx[r]].shape = "dict") =>
            LET step == plan[r][idx[r]]
                res == Last(results'[r].step_results)
            IN  /\ Len(results'[r].step_results) = Len(results[r].step_results) + 1
                /\ res.step_number = idx[r]
                /\ res.step = step
                /\ res.status \in {"completed", "failed"}
                /\ step.tool \notin {"web_search", "web_fetch", "analyze", "synthesize"}
                        => res.status = "failed"
                /\ res.status = "failed" =>
                        /\ res.error # None
                        /\ Last(execution_log').event = "step_failed"
                        /\ Last(execution_log').data = idx[r]
                        /\ Len(execution_log') = Len(execution_log) + 1
                        /\ raised'[r] = "none"
                        /\ pc'[r] # "except"
                        /\ IF step.critical = "false"
                           THEN /\ results'[r].status = "in_progress"
                                /\ idx'[r] = idx[r] + 1
                                /\ pc'[r] = "for"
                           ELSE /\ results'[r].status = "failed"
                                /\ pc'[r] = "synthesize_results"]_vars

StepLevelFailureWitness ==
    \E r \in Runs :
        /\ retval[r].returned
        /\ retval[r].success
        /\ \E k \in 1..Len(results[r].step_results) :
                LET res == results[r].step_results[k]
                IN  /\ res.step.tool = "no_such_tool"
                    /\ res.status = "failed"
                    /\ res.step.critical = "false"
        /\ \E k \in 1..Len(results[r].step_results) :
                LET res == results[r].step_results[k]
                IN  /\ res.step.tool = "web_search"
                    /\ res.status = "failed"
                    /\ res.step.critical # "false"

\* C21. web_fetch never raises: when the awaited execute_step of a web_fetch
\* step ends, the engine appends a completed StepResult of the step whose
\* result is the page text or a text "Error fetching URL: <cause>", logs no
\* step_failed and raises nothing; and every web_fetch result recorded so
\* far is in the context the next step is executed with.
FetchErrorIsCompletedResult ==
    [][\A r \in Runs :
         /\ (/\ pc[r] = "await_step" /\ pc'[r] # pc[r]
             /\ plan[r][idx[r]].shape = "dict"
             /\ plan[r][idx[r]].tool = "web_fetch") =>
                LET res == Last(results'[r].step_results)
                IN  /\ Len(results'[r].step_results) = Len(results[r].step_results) + 1
                    /\ res.step_number = idx[r]
                    /\ res.status = "completed"
                    /\ \/ res.result = <<"page text">>
                       \/ Len(res.result) = 2 /\ res.result[1] = "Error fetching URL:"
                    /\ execution_log' = execution_log
                    /\ raised'[r] = "none"
                    /\ results'[r].status = "in_progress"
         /\ (pc'[r] = "await_step" /\ pc[r] # pc'[r]) =>
                \A k \in 1..Len(results[r].step_results) :
                    results[r].step_results[k].step.tool = "web_fetch" =>
                        \E j \in 1..Len(context'[r]) :
                            context'[r][j] = results[r].step_results[k]]_vars

FetchErrorIsCompletedResultWitness ==
    \E r \in Runs :
        /\ pc[r] = "await_step"
        /\ idx[r] = 2
        /\ context[r] # <<>>
        /\ context[r][1].step.tool = "web_fetch"
        /\ context[r][1].status = "completed"
        /\ context[r][1].result = <<"Error fetching URL:", "network">>

\* C22. With a progress subscriber, run() emits the notification
\* "understanding" exactly once, after goal_understood is logged and before
\* the plan is made, then "planning" exactly once, after plan_created is
\* logged and before any step is started; each is awaited before the run
\* goes on, and both precede every per-step notification.
Logged(log, log2, r, ev) ==
    /\ Len(log2) = Len(log) + 1
    /\ Last(log2).event = ev
    /\ Last(log2).run = r

CoarseNotificationsOrdered ==
    [][\A r \in Runs :
         cb[r] =>
            /\ notified'[r] # notified[r] =>
                  LET n == notified[r]
                      e == Last(notified'[r])
                  IN  /\ notified'[r] = Append(n, e)
                      /\ e.kind = "understanding" =>
                            /\ n = <<>>
                            /\ Last(execution_log).event = "goal_understood"
                            /\ Last(execution_log).run = r
                            /\ pc'[r] = "await_understanding" /\ cur' = 0
                      /\ e.kind = "planning" =>
                            /\ Len(n) = 1 /\ n[1].kind = "understanding"
                            /\ Last(execution_log).event = "plan_created"
                            /\ Last(execution_log).run = r
                            /\ pc'[r] = "await_planning" /\ cur' = 0
                      /\ e.kind \notin {"understanding", "planning"} =>
                            /\ Len(n) >= 2
                            /\ n[1].kind = "understanding" /\ n[2].kind = "planning"
            /\ Logged(execution_log, execution_log', r, "plan_created") =>
                  /\ Len(notified[r]) = 1
                  /\ notified[r][1].kind = "understanding"
            /\ Logged(execution_log, execution_log', r, "step_started") =>
                  /\ Len(notified[r]) >= 2
                  /\ notified[r][1].kind = "understanding"
                  /\ notified[r][2].kind = "planning"]_vars

CoarseNotificationsOrderedWitness ==
    \E r \in Runs :
        /\ cb[r]
        /\ Len(notified[r]) = 4
        /\ notified[r][1].kind = "understanding"
        /\ notified[r][2].kind = "planning"
        /\ notified[r][3].kind = "progress"
        /\ notified[r][4].kind = "progress"
        /\ retval[r].returned

\* C23. steps_completed counts successes: at every point of execute_plan it
\* equals the number of StepResults whose status is completed (it starts at
\* 0, grows by one with each completed step and is left alone by a failed
\* one).
CompletedCount(step_results) ==
    Cardinality({k \in 1..Len(step_results) : step_results[k].status = "completed"})

StepsCompletedCountsSuccesses ==
    \A r \in Runs :
        results[r].steps_completed = CompletedCount(results[r].step_results)

\* C24. For each successful step with a subscriber the order is fixed: the
\* completed StepResult is appended and steps_completed updated, then the
\* subscriber is invoked, once for the step, with the ExecutionState that
\* already includes the step, and the run is suspended; step_completed is
\* logged only after the subscriber has returned; while the subscriber has
\* not returned nothing of the run changes.
SubscriberAwaitedPerStep ==
    [][\A r \in Runs :
         cb[r] =>
            /\ (notified'[r] # notified[r] /\ Last(notified'[r]).kind = "progress") =>
                  LET e == Last(notified'[r])
                      sr == results[r].step_results
                  IN  /\ pc[r] = "notify_progress"
                      /\ sr # <<>>
                      /\ Last(sr).status = "completed"
                      /\ Last(sr).step_number = idx[r]
                      /\ results[r].steps_completed = idx[r]
                      /\ e.steps_completed = idx[r]
                      /\ e.results = Len(sr)
                      /\ \A k \in 1..Len(notified[r]) :
                            notified[r][k].kind = "progress" =>
                                notified[r][k].steps_completed < idx[r]
                      /\ pc'[r] = "await_progress"
                      /\ cur' = 0
                      /\ execution_log' = execution_log
            /\ (pc'[r] = "step_completed" /\ pc[r] # pc'[r]) => pc[r] = "await_progress"
            /\ Logged(execution_log, execution_log', r, "step_completed") =>
                  /\ pc[r] = "step_completed"
                  /\ Last(notified[r]).kind = "progress"
                  /\ Last(notified[r]).steps_completed = idx[r]
            /\ (pc[r] = "await_progress" /\ pc'[r] = pc[r]) =>
                  /\ results'[r] = results[r]
                  /\ idx'[r] = idx[r]
                  /\ notified'[r] = notified[r]
                  /\ \/ execution_log' = execution_log
                     \/ Last(execution_log').run # r]_vars

SubscriberAwaitedPerStepWitness ==
    \E r \in Runs :
        /\ cb[r]
        /\ pc[r] = "for"
        /\ idx[r] = 3
        /\ Len(notified[r]) = 4
        /\ Last(notified[r]).steps_completed = 2
        /\ Last(execution_log).event = "step_completed"

\* C25. Steps are started strictly in list order and one at a time: the
\* step entries a run has logged are step_started of step 1, one
\* step_completed or step_failed of step 1, step_started of step 2, and so
\* on; and the loop, when it is at a list position of the plan, starts the
\* step at that position whatever the step's dependencies name.
RECURSIVE StepEntries(_, _)
StepEntries(log, r) ==
    IF log = <<>> THEN <<>>
    ELSE LET e == Head(log)
             rest == StepEntries(Tail(log), r)
         IN  IF e.run = r /\ e.event \in {"step_started", "step_completed", "step_failed"}
             THEN <<e>> \o rest ELSE rest

StepsInListOrder ==
    [][\A r \in Runs :
         /\ LET se == StepEntries(execution_log', r)
            IN  \A j \in 1..Len(se) :
                    /\ se[j].data = (j + 1) \div 2
                    /\ j % 2 = 1 => se[j].event = "step_started"
                    /\ j % 2 = 0 => se[j].event \in {"step_completed", "step_failed"}
         /\ (pc[r] = "for" /\ idx[r] <= Len(plan[r]) /\ <<pc[r], idx[r]>> # <<pc'[r], idx'[r]>>) =>
                /\ Logged(execution_log, execution_log', r, "step_started")
                /\ Last(execution_log').data = idx[r]
                /\ pc'[r] = "await_step"
                /\ idx'[r] = idx[r]]_vars

StepsInListOrderWitness ==
    \E r \in Runs :
        /\ retval[r].returned
        /\ Len(plan[r]) = 2
        /\ plan[r][1].dependencies = <<2>>
        /\ plan[r][2].dependencies = <<1>>
        /\ Len(results[r].step_results) = 2
        /\ results[r].step_results[1].status = "failed"
        /\ results[r].step_results[2].status = "completed"

\* C26. The context handed to execute_step for the step at list position i
\* is the whole sequence of StepResults accumulated so far: it has a result
\* of every step before i, completed and failed alike, in plan order,
\* whatever the step's dependencies name, and is empty for the first step.
ContextIsAllStepResults ==
    [][\A r \in Runs :
         (pc'[r] = "await_step" /\ pc[r] # pc'[r]) =>
            /\ context'[r] = results[r].step_results
            /\ idx[r] = 1 => context'[r] = <<>>
            /\ \A j \in 1..(idx[r] - 1) :
                    \E k \in 1..Len(context'[r]) : context'[r][k].step_number = j
            /\ \A k \in 1..(Len(context'[r]) - 1) :
                    context'[r][k].step_number <= context'[r][k + 1].step_number]_vars

ContextIsAllStepResultsWitness ==
    \E r \in Runs :
        /\ pc[r] = "await_step"
        /\ idx[r] = 2
        /\ plan[r][2].dependencies = <<99>>
        /\ Len(context[r]) = 1
        /\ context[r][1].status = "failed"

\* C27. synthesize_results calls the collaborator once, with the completed
\* StepResults of the execution in step_results order, each as a heading
\* (the description of its step) and its result, and with nothing of the
\* failed ones; the collaborator's text is what run() returns as output, and
\* one results_synthesized entry is appended.
CompletedAt(step_results, j) ==
    CHOOSE k \in 1..Len(step_results) :
        /\ step_results[k].status = "completed"
        /\ CompletedCount(SubSeq(step_results, 1, k)) = j

SynthesisOfCompletedResults ==
    [][\A r \in Runs :
         /\ (pc[r] = "synthesize_results" /\ pc'[r] = "return") =>
                LET sr == results[r].step_results
                    f == synth'[r].findings
                IN  /\ ~synth[r].called /\ synth'[r].called
                    /\ Len(f) = CompletedCount(sr)
                    /\ \A j \in 1..Len(f) :
                          /\ f[j].heading = sr[CompletedAt(sr, j)].step.description
                          /\ f[j].result = sr[CompletedAt(sr, j)].result
                    /\ Logged(execution_log, execution_log', r, "results_synthesized")
         /\ (pc[r] = "return" /\ pc'[r] = "done") =>
                /\ retval'[r].output = <<"report of", r>>
                /\ Cardinality({k \in 1..Len(execution_log) :
                        /\ execution_log[k].run = r
                        /\ execution_log[k].event = "results_synthesized"}) = 1
                /\ execution_log' = execution_log]_vars

SynthesisOfCompletedResultsWitness ==
    \E r \in Runs :
        /\ retval[r].returned /\ retval[r].success
        /\ Len(results[r].step_results) = 2
        /\ results[r].step_results[1].status = "failed"
        /\ results[r].step_results[2].status = "completed"
        /\ Len(synth[r].findings) = 1
        /\ synth[r].findings[1].heading = plan[r][2].description

\* C28. When run() returns success = false, the log it returns is every
\* entry appended before the error, unchanged and in order, followed by one
\* agent_error entry as its last entry; entries are only ever appended to
\* the log, so none recorded before the failure is lost.
FailureLogKeepsEntries ==
    [][/\ IsPrefix(execution_log, execution_log')
       /\ \A r \in Runs :
            (pc[r] = "except" /\ pc'[r] = "done") =>
                /\ retval'[r].returned
                /\ ~retval'[r].success
                /\ retval'[r].loglen = Len(execution_log')
                /\ Len(execution_log') = Len(execution_log) + 1
                /\ SubSeq(execution_log', 1, Len(execution_log)) = execution_log
                /\ Last(execution_log').event = "agent_error"
                /\ Last(execution_log').run = r
                /\ \A k \in 1..Len(execution_log) :
                        ~(execution_log[k].run = r /\ execution_log[k].event = "agent_error")
      ]_vars

FailureLogKeepsEntriesWitness ==
    \E r \in Runs :
        /\ retval[r].returned
        /\ ~retval[r].success
        /\ raised[r] = "execute_plan"
        /\ retval[r].loglen = 5
        /\ Events(execution_log, 5) =
                <<"goal_understood", "plan_created", "step_started", "step_failed",
                  "agent_error">>

\* C29. What execute_plan returns is characterised by its results: the
\* status is never in_progress; it is failed exactly when the last
\* StepResult is failed and is of a step whose critical flag is true or
\* missing; when it is completed every plan step has a StepResult and every
\* failed StepResult is of a step whose critical flag is false.
ExecutePlanReturned(r) == pc[r] = "synthesize_results"

TerminalStatusCharacterised ==
    \A r \in Runs :
        ExecutePlanReturned(r) =>
            LET sr == results[r].step_results
                lastFailedCritical ==
                    /\ sr # <<>>
                    /\ Last(sr).status = "failed"
                    /\ Last(sr).step.critical \in {"true", "missing"}
            IN  /\ results[r].status \in {"completed", "failed"}
                /\ results[r].status = "failed" <=> lastFailedCritical
                /\ results[r].status = "completed" =>
                      /\ \A n \in 1..Len(plan[r]) :
                            \E k \in 1..Len(sr) : sr[k].step_number = n
                      /\ \A k \in 1..Len(sr) :
                            sr[k].status = "failed" => sr[k].step.critical = "false"

TerminalStatusCharacterisedWitness ==
    \E r \in Runs :
        /\ ExecutePlanReturned(r)
        /\ results[r].status = "completed"
        /\ Len(results[r].step_results) = 2
        /\ results[r].step_results[1].status = "completed"
        /\ results[r].step_results[2].status = "failed"

\* C30. For every finite plan, provided every executor call and every
\* subscriber call ends, execute_plan eventually reaches the status
\* completed or failed; and each plan step is attempted at most once: a step
\* is started only if no step_started of it or of a later step was logged
\* by the run before.
ExecutePlanTerminates ==
    /\ \A r \in Runs :
            (pc[r] = "execute_plan") ~> (results[r].status \in {"completed", "failed"})
    /\ [][\A r \in Runs :
            Logged(execution_log, execution_log', r, "step_started") =>
                \A k \in 1..Len(execution_log) :
                    (execution_log[k].run = r /\ execution_log[k].event = "step_started")
                        => execution_log[k].data < Last(execution_log').data]_vars

ExecutePlanTerminatesWitness ==
    \E r \in Runs :
        /\ cb[r]
        /\ Len(plan[r]) = 2
        /\ results[r].status = "completed"
        /\ Len(results[r].step_results) = 2
        /\ results[r].step_results[1].status = "failed"
        /\ results[r].step_results[2].status = "completed"
        /\ pc[r] = "done"

====
